---- MODULE Spec2Model ----
(***************************************************************************)
(* The URL shortener of "Backend Test Submission/app.py": the three Flask  *)
(* handlers create_shorturl, get_shorturl_stats and redirect_to_original,  *)
(* run by concurrent requests against the two SQLite tables shorturls and  *)
(* clicks.  A request is a slot r; a handler is split where it touches the *)
(* database, so that requests interleave between their queries/commits.    *)
(*                                                                         *)
(* Time is counted in half minutes (one tick = 30 s), so that a validity   *)
(* of 1.5 minutes is a whole number of ticks.                              *)
(***************************************************************************)
EXTENDS Integers, Sequences, FiniteSets, TLC

\* ------------------------------------------------------------------ bounds
NumReqs == 3          \* request slots (each serves one request)
MaxClock == 3         \* the wall clock runs from 0 to MaxClock ticks
MaxInFlight == 2      \* requests served at the same time

Reqs == 1..NumReqs

\* ------------------------------------------------- strings as char tuples
NoCode == <<>>        \* no shortcode: Python None / ''

Lower == {"a","b","c","d","e","f","g","h","i","j","k","l","m",
          "n","o","p","q","r","s","t","u","v","w","x","y","z"}
Upper == {"A","B","C","D","E","F","G","H","I","J","K","L","M",
          "N","O","P","Q","R","S","T","U","V","W","X","Y","Z"}
Digits == {"0","1","2","3","4","5","6","7","8","9"}

\* string.ascii_letters + string.digits
ALPHABET == Lower \cup Upper \cup Digits

\* str.strip(): drop leading and trailing blanks
RECURSIVE lstrip(_)
lstrip(s) == IF s # <<>> /\ Head(s) = " " THEN lstrip(Tail(s)) ELSE s

RECURSIVE rstrip(_)
rstrip(s) == IF s # <<>> /\ s[Len(s)] = " "
             THEN rstrip(SubSeq(s, 1, Len(s) - 1)) ELSE s

strip(s) == rstrip(lstrip(s))

\* A pattern that looks at the length alone
SHORTCODE_RE_loose(code) == Len(code) >= 4 /\ Len(code) <= 64

\* re.compile(r'^[A-Za-z0-9]{4,64}$').match(code)
SHORTCODE_RE(code) ==
    /\ Len(code) >= 4
    /\ Len(code) <= 64
    /\ \A i \in 1..Len(code) : code[i] \in ALPHABET

\* The draws of random.choices that the model follows: a candidate of a given
\* length is one character of GenChars repeated.
GenChars == {"a", "b"}

\* generate_shortcode(length): the candidates a draw can give
generate_shortcode(length) ==
    { [i \in 1..length |-> ch] : ch \in GenChars }

\* A URL is a tuple of tokens; validate_url strips it and looks at its start.
validate_url(url) ==
    LET u == strip(url)
    IN  u # <<>> /\ (u[1] = "http://" \/ u[1] = "https://")

\* ---------------------------------------------------------------- datetimes
\* A datetime is a tick count t and whether it carries tzinfo (aware).
DateTime(t, aware) == [t |-> t, tz |-> aware]

\* datetime.utcnow().replace(tzinfo=timezone.utc): an aware datetime
now_utc(clk) == DateTime(clk, TRUE)

\* created_at + timedelta(minutes=validity); one minute is two ticks
plus_minutes(dt, validity) == DateTime(dt.t + 2 * validity, dt.tz)

\* A db.DateTime column of the SQLite database: the value is written as
\* "YYYY-MM-DD HH:MM:SS.ffffff", without offset, and read back naive.
StoreDateTime(dt) == DateTime(dt.t, FALSE)

\* A comparison that looks at the time alone
DateTimeGT_lenient(a, b) == IF a.t > b.t THEN "True" ELSE "False"

\* Python's a > b on datetimes: aware against naive raises TypeError.
DateTimeGT(a, b) ==
    IF a.tz # b.tz THEN "TypeError"
    ELSE IF a.t > b.t THEN "True" ELSE "False"

\* An isoformat() that leaves a naive dt without its "Z"
to_iso_z_bare(dt) == [t |-> dt.t, suffix |-> IF dt.tz THEN "Z" ELSE ""]

\* to_iso_z(dt): a naive dt is taken as UTC; the text ends in "Z"
to_iso_z(dt) == [t |-> dt.t, suffix |-> "Z"]

\* ---------------------------------------------------------------- validity
DefaultValidity == 30

\* The "validity" of a request body: absent, a JSON integer, a JSON float or
\* a JSON string; halves is twice the number (so 3 is 1.5).
Validity(type, halves) == [type |-> type, halves |-> halves]
NoValidity == Validity("absent", 0)

\* data.get("validity", 30); int(validity): an int is kept, a float is cut
\* towards zero, a string that is no integer literal raises ValueError.
PyInt(v) ==
    CASE v.type = "absent" -> [ok |-> TRUE, val |-> DefaultValidity]
      [] v.type = "int"    -> [ok |-> TRUE, val |-> v.halves \div 2]
      [] v.type = "float"  -> [ok |-> TRUE,
                               val |-> IF v.halves >= 0 THEN v.halves \div 2
                                       ELSE -((-v.halves) \div 2)]
      [] OTHER             -> [ok |-> FALSE, val |-> 0]

\* ------------------------------------------------------------------- state
HOSTNAME == "http://localhost:5000"

VARIABLES
    shorturls,   \* table shorturls: the rows in insertion order (id = index)
    clicks,      \* table clicks: the rows in insertion order
    clock,       \* the wall clock (datetime.utcnow()), in ticks, never set back
    pc,          \* pc[r]: where request r is in its handler
    req,         \* req[r]: what request r asks
    local,       \* local[r]: the handler's local variables
    resp         \* resp[r]: the response sent for request r

vars == <<shorturls, clicks, clock, pc, req, local, resp>>

NoTime == DateTime(-1, FALSE)
NoIso == [t |-> -1, suffix |-> ""]

\* No row: what .first() gives when nothing matches (None)
NoRow == [id |-> 0, shortcode |-> NoCode, original_url |-> <<>>,
          created_at |-> NoTime, expiry |-> NoTime, by |-> 0]

\* class ShortURL: one row; by is the request that inserted it (history only,
\* not a column)
ShortURL(id, shortcode, original_url, created_at, expiry, by) ==
    [id |-> id, shortcode |-> shortcode, original_url |-> original_url,
     created_at |-> StoreDateTime(created_at),
     expiry |-> StoreDateTime(expiry), by |-> by]

\* class Click: one row (location is always "unknown"; by is history only)
Click(id, shortcode, timestamp, by) ==
    [id |-> id, shortcode |-> shortcode,
     timestamp |-> StoreDateTime(timestamp), location |-> "unknown", by |-> by]

\* A lookup that finds nothing
Lookup_miss(table, code) == NoRow

\* ShortURL.query.filter_by(shortcode=code).first()
Lookup(table, code) ==
    IF \E i \in 1..Len(table) : table[i].shortcode = code
    THEN table[CHOOSE i \in 1..Len(table) :
                 /\ table[i].shortcode = code
                 /\ \A j \in 1..(i - 1) : table[j].shortcode # code]
    ELSE NoRow

\* A table without the unique constraint
IntegrityError_off(table, code) == FALSE

\* unique=True on shorturls.shortcode: the commit of a row whose shortcode is
\* in the table raises IntegrityError
IntegrityError(table, code) ==
    \E i \in 1..Len(table) : table[i].shortcode = code

\* A commit that violates no constraint adds the row; by mistake it could
\* replace the row that holds the shortcode
Commit_upsert(table, short) ==
    [ok |-> TRUE,
     table |-> IF \E i \in 1..Len(table) : table[i].shortcode = short.shortcode
               THEN [i \in 1..Len(table) |->
                       IF table[i].shortcode = short.shortcode
                       THEN [short EXCEPT !.id = i] ELSE table[i]]
               ELSE Append(table, short)]

\* A refused commit that is not rolled back: the row stays in the table
Commit_dirty(table, short) ==
    [ok |-> ~(\E i \in 1..Len(table) : table[i].shortcode = short.shortcode),
     table |-> Append(table, short)]

\* db.session.add(short); db.session.commit(): the row is added unless the
\* unique constraint refuses it (IntegrityError; db.session.rollback() leaves
\* the table as it was)
Commit(table, short) ==
    IF IntegrityError(table, short.shortcode)
    THEN [ok |-> FALSE, table |-> table]
    ELSE [ok |-> TRUE, table |-> Append(table, short)]

NoResp == [status |-> 0, at |-> -1, shortLink |-> <<>>, expiry |-> NoIso, target |-> <<>>,
           clicks |-> 0, originalURL |-> <<>>, createdAt |-> NoIso,
           clickData |-> <<>>]

NoLocal == [shortcode |-> NoCode, validity |-> 0, attempt |-> 0, s |-> NoRow]

NoReq == [kind |-> "none", url |-> <<>>, validity |-> NoValidity,
          shortcode |-> NoCode, fault |-> FALSE]

\* ------------------------------------------------------------------ inputs
U1 == <<"https://", "example.com">>
U2 == <<"http://", "other.org/x">>

abcd1 == <<"a", "b", "c", "d", "1">>
aaaaaa == <<"a", "a", "a", "a", "a", "a">>

Request(kind, url, validity, shortcode, fault) ==
    [kind |-> kind, url |-> url, validity |-> validity,
     shortcode |-> shortcode, fault |-> fault]

\* POST /shorturls bodies; fault: the store fails this request's commit
CreateInputs ==
    { Request("create", U1, Validity("int", 2), c, FALSE) :
        c \in {NoCode, abcd1, aaaaaa} }
    \cup { Request("create", U2, NoValidity, abcd1, FALSE),
           Request("create", U2, Validity("float", 3), abcd1, FALSE),
           Request("create", U2, Validity("int", 2), abcd1, TRUE) }

\* GET /<shortcode>; fault: the store fails the commit of the click
RedirectInputs ==
    { Request("redirect", <<>>, NoValidity, abcd1, f) : f \in BOOLEAN }
    \cup { Request("redirect", <<>>, NoValidity, aaaaaa, FALSE) }

\* GET /shorturls/<shortcode>
StatsInputs ==
    { Request("stats", <<>>, NoValidity, c, FALSE) : c \in {abcd1, aaaaaa} }

Inputs == CreateInputs \cup RedirectInputs \cup StatsInputs

Init ==
    /\ shorturls = <<>>
    /\ clicks = <<>>
    /\ clock = 0
    /\ pc = [r \in Reqs |-> "idle"]
    /\ req = [r \in Reqs |-> NoReq]
    /\ local = [r \in Reqs |-> NoLocal]
    /\ resp = [r \in Reqs |-> NoResp]

\* A request arrives, one of those in from (slots are taken in order)
Receive(r, from) ==
    /\ pc[r] = "idle"
    /\ \A q \in Reqs : q < r => pc[q] # "idle"
    /\ Cardinality({q \in Reqs : pc[q] \notin {"idle", "done"}}) < MaxInFlight
    /\ \E i \in from :
         /\ req' = [req EXCEPT ![r] = i]
         /\ pc' = [pc EXCEPT ![r] = i.kind]
    /\ UNCHANGED <<shorturls, clicks, clock, local, resp>>

\* The wall clock advances
Tick ==
    /\ clock < MaxClock
    /\ clock' = clock + 1
    /\ UNCHANGED <<shorturls, clicks, pc, req, local, resp>>

\* return jsonify(...), status; _log_response notes the time of the response
Return(r, body) ==
    /\ resp' = [resp EXCEPT ![r] = [body EXCEPT !.at = clock]]
    /\ pc' = [pc EXCEPT ![r] = "done"]

Error(status) == [NoResp EXCEPT !.status = status]

\* ------------------------------------------------- POST /shorturls (create)
AttemptLens == <<6, 7, 8>>     \* for attempt_len in (6, 7, 8)
AttemptsPerLen == 6            \* for _ in range(6)
FinalLen == 10                 \* generate_shortcode(length=10)

\* The draws of the retry loop, before the final one
LoopDraws == Len(AttemptLens) * AttemptsPerLen

\* A loop that never moves on to a longer code
DrawLen_flat(k) == AttemptLens[1]

\* The length of the draw made after k draws found an occupied code
DrawLen(k) ==
    IF k < LoopDraws THEN AttemptLens[(k \div AttemptsPerLen) + 1] ELSE FinalLen

\* f"{HOSTNAME.rstrip('/')}/{shortcode}"
short_link(shortcode) == <<HOSTNAME, "/">> \o shortcode

\* Lines 138-167: the body is validated; a custom shortcode is stripped,
\* matched against SHORTCODE_RE and looked up (the pre-check).
create_shorturl_validate(r) ==
    /\ pc[r] = "create"
    /\ LET data == req[r]
           original_url == data.url
           validity == PyInt(data.validity)
           custom_shortcode == strip(data.shortcode)
       IN  IF original_url = <<>> \/ ~validate_url(original_url)
           THEN Return(r, Error(400)) /\ UNCHANGED local
           ELSE IF ~validity.ok \/ validity.val <= 0
           THEN Return(r, Error(400)) /\ UNCHANGED local
           ELSE IF data.shortcode # NoCode
           THEN IF ~SHORTCODE_RE(custom_shortcode)
                THEN Return(r, Error(400)) /\ UNCHANGED local
                ELSE IF Lookup(shorturls, custom_shortcode) # NoRow
                THEN Return(r, Error(409)) /\ UNCHANGED local
                ELSE /\ local' = [local EXCEPT
                                    ![r].shortcode = custom_shortcode,
                                    ![r].validity = validity.val]
                     /\ pc' = [pc EXCEPT ![r] = "insert"]
                     /\ UNCHANGED resp
           ELSE /\ local' = [local EXCEPT ![r].validity = validity.val]
                /\ pc' = [pc EXCEPT ![r] = "generate"]
                /\ UNCHANGED resp
    /\ UNCHANGED <<shorturls, clicks, clock, req>>

\* Lines 168-181: one draw of the retry loop and its existence check
create_shorturl_generate(r) ==
    /\ pc[r] = "generate"
    /\ \E candidate \in generate_shortcode(DrawLen(local[r].attempt)) :
         IF Lookup(shorturls, candidate) = NoRow
         THEN /\ local' = [local EXCEPT ![r].shortcode = candidate]
              /\ pc' = [pc EXCEPT ![r] = "insert"]
              /\ UNCHANGED resp
         ELSE IF local[r].attempt < LoopDraws
         THEN /\ local' = [local EXCEPT ![r].attempt = @ + 1]
              /\ UNCHANGED <<pc, resp>>
         ELSE Return(r, Error(500)) /\ UNCHANGED local
    /\ UNCHANGED <<shorturls, clicks, clock, req>>

\* Lines 183-202: the row is built and committed
create_shorturl_commit(r) ==
    /\ pc[r] = "insert"
    /\ LET shortcode == local[r].shortcode
           created_at == now_utc(clock)
           expiry == plus_minutes(created_at, local[r].validity)
           short == ShortURL(Len(shorturls) + 1, shortcode, req[r].url,
                             created_at, expiry, r)
           committed == Commit(shorturls, short)
       IN  IF req[r].fault
           THEN Return(r, Error(500)) /\ UNCHANGED shorturls
           ELSE IF ~committed.ok
           THEN /\ shorturls' = committed.table
                /\ Return(r, Error(409))
           ELSE /\ shorturls' = committed.table
                /\ Return(r, [NoResp EXCEPT
                                !.status = 201,
                                !.shortLink = short_link(shortcode),
                                !.expiry = to_iso_z(expiry)])
    /\ UNCHANGED <<clicks, clock, req, local>>

create_shorturl(r) ==
    \/ create_shorturl_validate(r)
    \/ create_shorturl_generate(r)
    \/ create_shorturl_commit(r)

\* ------------------------------------------- GET /shorturls/<shortcode>
\* The rows of a table that satisfy a test, in table order
RECURSIVE SelectRows(_, _)
SelectRows(table, code) ==
    IF table = <<>> THEN <<>>
    ELSE IF Head(table).shortcode = code
         THEN <<Head(table)>> \o SelectRows(Tail(table), code)
         ELSE SelectRows(Tail(table), code)

\* Insert a row into rows sorted by timestamp, after the rows that are not
\* later
RECURSIVE InsertByTimestamp(_, _)
InsertByTimestamp(rows, c) ==
    IF rows = <<>> THEN <<c>>
    ELSE IF Head(rows).timestamp.t <= c.timestamp.t
         THEN <<Head(rows)>> \o InsertByTimestamp(Tail(rows), c)
         ELSE <<c>> \o rows

\* A query without order_by: the rows come as they were inserted
OrderByInsertion(rows) == rows

\* .order_by(Click.timestamp.asc())
RECURSIVE OrderByTimestamp(_)
OrderByTimestamp(rows) ==
    IF rows = <<>> THEN <<>>
    ELSE InsertByTimestamp(OrderByTimestamp(SubSeq(rows, 1, Len(rows) - 1)),
                           rows[Len(rows)])

\* Lines 209-211
get_shorturl_stats_lookup(r) ==
    /\ pc[r] = "stats"
    /\ LET s == Lookup(shorturls, req[r].shortcode)
       IN  IF s = NoRow
           THEN Return(r, Error(404)) /\ UNCHANGED local
           ELSE /\ local' = [local EXCEPT ![r].s = s]
                /\ pc' = [pc EXCEPT ![r] = "stats_clicks"]
                /\ UNCHANGED resp
    /\ UNCHANGED <<shorturls, clicks, clock, req>>

\* Lines 213-231
get_shorturl_stats_respond(r) ==
    /\ pc[r] = "stats_clicks"
    /\ LET s == local[r].s
           clicks_q == OrderByTimestamp(SelectRows(clicks, req[r].shortcode))
           click_list == [i \in 1..Len(clicks_q) |->
                            to_iso_z(clicks_q[i].timestamp)]
       IN  Return(r, [NoResp EXCEPT
                        !.status = 200,
                        !.clicks = Len(click_list),
                        !.originalURL = s.original_url,
                        !.createdAt = to_iso_z(s.created_at),
                        !.expiry = to_iso_z(s.expiry),
                        !.clickData = click_list])
    /\ UNCHANGED <<shorturls, clicks, clock, req, local>>

get_shorturl_stats(r) ==
    \/ get_shorturl_stats_lookup(r)
    \/ get_shorturl_stats_respond(r)

\* ------------------------------------------------------- GET /<shortcode>
\* Lines 238-241
redirect_to_original_lookup(r) ==
    /\ pc[r] = "redirect"
    /\ LET s == Lookup(shorturls, req[r].shortcode)
       IN  IF s = NoRow
           THEN Return(r, Error(404)) /\ UNCHANGED local
           ELSE /\ local' = [local EXCEPT ![r].s = s]
                /\ pc' = [pc EXCEPT ![r] = "redirect_check"]
                /\ UNCHANGED resp
    /\ UNCHANGED <<shorturls, clicks, clock, req>>

\* Lines 243-271: the expiry check, the click and the redirect.  An exception
\* that leaves the handler is answered by Flask with 500.
redirect_to_original_respond(r) ==
    /\ pc[r] = "redirect_check"
    /\ LET s == local[r].s
           now == now_utc(clock)
           expired == DateTimeGT(now, s.expiry)
           click == Click(Len(clicks) + 1, req[r].shortcode, now, r)
       IN  IF expired = "TypeError"
           THEN Return(r, Error(500)) /\ UNCHANGED clicks
           ELSE IF expired = "True"
           THEN Return(r, Error(410)) /\ UNCHANGED clicks
           ELSE /\ clicks' = IF req[r].fault THEN clicks
                             ELSE Append(clicks, click)
                /\ Return(r, [NoResp EXCEPT !.status = 302,
                                            !.target = s.original_url])
    /\ UNCHANGED <<shorturls, clock, req, local>>

redirect_to_original(r) ==
    \/ redirect_to_original_lookup(r)
    \/ redirect_to_original_respond(r)

\* ------------------------------------------------------------ specification
Next ==
    \/ Tick
    \/ \E r \in Reqs :
         \/ Receive(r, Inputs)
         \/ create_shorturl(r)
         \/ get_shorturl_stats(r)
         \/ redirect_to_original(r)

Spec == Init /\ [][Next]_vars

\* Creators only: the requests are POST /shorturls, served within one tick
\* of the clock (create_shorturl reads the clock only to stamp the row)
CreatorInputs ==
    { Request("create", U1, Validity("int", 2), c, FALSE) :
        c \in {NoCode, abcd1, aaaaaa} }
    \cup { Request("create", U2, NoValidity, abcd1, FALSE),
           Request("create", U2, Validity("int", 2), abcd1, TRUE) }

NextCreate ==
    \E r \in Reqs :
      \/ Receive(r, CreatorInputs)
      \/ create_shorturl(r)

SpecCreate == Init /\ [][NextCreate]_vars

\* One shortcode, its creators and its visitors, as time passes
VisitInputs ==
    { Request("create", U1, Validity("int", 2), abcd1, FALSE),
      Request("redirect", <<>>, NoValidity, abcd1, FALSE),
      Request("redirect", <<>>, NoValidity, abcd1, TRUE),
      Request("stats", <<>>, NoValidity, abcd1, FALSE) }

NextVisit ==
    \/ Tick
    \/ \E r \in Reqs :
         \/ Receive(r, VisitInputs)
         \/ create_shorturl_validate(r)
         \/ create_shorturl_commit(r)
         \/ get_shorturl_stats(r)
         \/ redirect_to_original(r)

SpecVisit == Init /\ [][NextVisit]_vars

\* Bodies with every kind of "validity": a positive integer, zero, a negative
\* integer, 0.5, 1.5 and a string that is no number; all served within one
\* tick of the clock
ValidityInputs ==
    { Request("create", U1, v, abcd1, FALSE) :
        v \in { Validity("int", 2), Validity("int", 0), Validity("int", -2),
                Validity("float", 1), Validity("float", 3),
                Validity("str", 0) } }

NextValidity ==
    \E r \in Reqs :
      \/ Receive(r, ValidityInputs)
      \/ create_shorturl_validate(r)
      \/ create_shorturl_commit(r)

SpecValidity == Init /\ [][NextValidity]_vars

\* Bodies that are refused, next to ones that are not: custom shortcodes that
\* are padded, too short, not alphanumeric or blank, a url that is missing or
\* not http(s), a validity of zero, a commit that the store fails; all served
\* within one tick of the clock
padded == <<" ">> \o abcd1 \o <<" ">>
RejectInputs ==
    { Request("create", U1, Validity("int", 2), c, FALSE) :
        c \in { abcd1, NoCode, padded, <<"a", "b">>,
                <<"a", "b", "-", "d", "1">>, <<" ", " ">> } }
    \cup { Request("create", u, Validity("int", 2), abcd1, FALSE) :
             u \in { <<>>, <<"ftp://", "example.com">> } }
    \cup { Request("create", U1, Validity("int", 0), abcd1, FALSE),
           Request("create", U2, Validity("int", 2), abcd1, TRUE) }

NextReject ==
    \E r \in Reqs :
      \/ Receive(r, RejectInputs)
      \/ create_shorturl(r)

SpecReject == Init /\ [][NextReject]_vars

\* The shortcodes generate_shortcode can draw, of every length of the loop
Candidates ==
    UNION {generate_shortcode(DrawLen(k)) : k \in 0..LoopDraws}

\* The codes of a set as a sequence, in some order
RECURSIVE SeqOf(_)
SeqOf(codes) ==
    IF codes = {} THEN <<>>
    ELSE LET c == CHOOSE x \in codes : TRUE
         IN  <<c>> \o SeqOf(codes \ {c})

\* db.create_all() on a database file that earlier requests have filled:
\* shorturls holds a row (stored at clock 0, for 1 minute) for each code
Filled(codes) ==
    LET order == SeqOf(codes)
    IN  [i \in 1..Len(order) |->
           ShortURL(i, order[i], U2, now_utc(0), plus_minutes(now_utc(0), 1), 0)]

\* The lengths the loop draws at, in its order
DrawLens == AttemptLens \o <<FinalLen>>

\* The tables the allocator is run against: every code of the first n
\* lengths is taken, and perhaps one code of the next length
FilledTables ==
    { Filled({c \in Candidates :
                \/ \E i \in 1..n : Len(c) = DrawLens[i]
                \/ half /\ n < Len(DrawLens) /\ Len(c) = DrawLens[n + 1]
                        /\ c[1] = "a"}) :
        n \in 0..Len(DrawLens), half \in BOOLEAN }

InitAlloc ==
    /\ shorturls \in FilledTables
    /\ clicks = <<>>
    /\ clock = 0
    /\ pc = [r \in Reqs |-> "idle"]
    /\ req = [r \in Reqs |-> NoReq]
    /\ local = [r \in Reqs |-> NoLocal]
    /\ resp = [r \in Reqs |-> NoResp]

\* An auto-allocating creator and one that asks for a code the loop can draw
AllocInputs ==
    { Request("create", U1, Validity("int", 2), c, FALSE) :
        c \in {NoCode, aaaaaa} }

NextAlloc ==
    \E r \in Reqs :
      \/ Receive(r, AllocInputs)
      \/ create_shorturl(r)

SpecAlloc == InitAlloc /\ [][NextAlloc]_vars

\* The clicks a database file can hold: up to NumReqs rows, each written by
\* an earlier redirect of abcd1 that read the clock at some tick, or by one
\* of aaaaaa; the rows are in the order of their commits, which is not that
\* of the timestamps
ClickTables ==
    UNION { { [i \in 1..n |-> Click(i, f[i][1], now_utc(f[i][2]), 0)] :
                f \in [1..n -> ({abcd1} \X (0..MaxClock))
                                 \cup {<<aaaaaa, 0>>}] } :
            n \in 0..NumReqs }

\* db.create_all() on a database file that holds abcd1 and clicks
InitStats ==
    /\ shorturls = Filled({abcd1})
    /\ clicks \in ClickTables
    /\ clock = 0
    /\ pc = [r \in Reqs |-> "idle"]
    /\ req = [r \in Reqs |-> NoReq]
    /\ local = [r \in Reqs |-> NoLocal]
    /\ resp = [r \in Reqs |-> NoResp]

\* GET /shorturls/abcd1
StatsOfInputs == { Request("stats", <<>>, NoValidity, abcd1, FALSE) }

NextStats ==
    \E r \in Reqs :
      \/ Receive(r, StatsOfInputs)
      \/ get_shorturl_stats(r)

SpecStats == InitStats /\ [][NextStats]_vars

\* -------------------------------------------------------------- properties
\* What the properties say of the tables is read directly from the rows.
Stored(code) == {i \in 1..Len(shorturls) : shorturls[i].shortcode = code}
Registered(code) == Stored(code) # {}

Done(r, kind) == req[r].kind = kind /\ pc[r] = "done"

\* The shortcode a 201 response carries in its shortLink
ReturnedCode(r) == SubSeq(resp[r].shortLink, 3, Len(resp[r].shortLink))

\* A create request whose body passes the validation of lines 138-159
ValidCreate(data) ==
    /\ data.kind = "create"
    /\ data.url # <<>>
    /\ strip(data.url) # <<>>
    /\ strip(data.url)[1] \in {"http://", "https://"}
    /\ data.validity.type \in {"absent", "int", "float"}
    /\ data.validity.type = "absent" \/ data.validity.halves >= 2

\* The custom shortcode a create request asks for (NoCode: auto-allocate)
CustomCode(r) == strip(req[r].shortcode)

\* Request r finishes in this step
Finishes(r) == pc[r] # "done" /\ pc'[r] = "done"

\* ---------------------------------------------------------------------- C1
\* C1: in every reachable state no two rows of shorturls have the same
\* shortcode, and no two create requests answered 201 were given the same
\* shortcode (custom and auto-allocated requests, interleaved in any way).
C1_UniqueShortcodes ==
    /\ \A i, j \in 1..Len(shorturls) :
         i # j => shorturls[i].shortcode # shorturls[j].shortcode
    /\ \A r, q \in Reqs :
         (/\ r # q
          /\ Done(r, "create") /\ resp[r].status = 201
          /\ Done(q, "create") /\ resp[q].status = 201)
         => ReturnedCode(r) # ReturnedCode(q)

\* A custom and an auto-allocated create went for the same shortcode at the
\* same time: one got 201, the other lost at the insert; another create
\* registered a second shortcode.
C1_Witness ==
    /\ Len(shorturls) >= 2
    /\ \E r, q \in Reqs :
         /\ Done(r, "create") /\ Done(q, "create")
         /\ req[r].shortcode # NoCode /\ req[q].shortcode = NoCode
         /\ local[r].shortcode = local[q].shortcode
         /\ {resp[r].status, resp[q].status} = {201, 409}

\* ---------------------------------------------------------------------- C2
\* C2: a valid create request whose custom shortcode is registered when its
\* pre-check (or, after a lost race, its insert) runs is answered 409, and
\* the table shorturls is left as it was: the registered row keeps its
\* original_url, created_at and expiry.
C2_Step(r) ==
    (/\ ValidCreate(req[r])
     /\ req[r].shortcode # NoCode
     /\ Registered(CustomCode(r))
     /\ \/ pc[r] = "create" /\ pc'[r] # "create"
        \/ pc[r] = "insert" /\ pc'[r] # "insert" /\ ~req[r].fault)
    => /\ pc'[r] = "done"
       /\ resp'[r].status = 409
       /\ shorturls' = shorturls

C2_ConflictKeepsRow == [][\A r \in Reqs : C2_Step(r)]_vars

\* The same custom shortcode was created twice with different URLs and
\* validities: 201 for the first, 409 for the second stopped at the pre-check,
\* and the row is the first request's.
C2_Witness ==
    \E r, q \in Reqs :
      /\ Done(r, "create") /\ resp[r].status = 201
      /\ Done(q, "create") /\ resp[q].status = 409
      /\ local[q].shortcode = NoCode
      /\ CustomCode(q) = ReturnedCode(r)
      /\ req[q].url # req[r].url
      /\ \E i \in Stored(CustomCode(q)) :
           /\ shorturls[i].original_url = req[r].url
           /\ shorturls[i].by = r

\* ---------------------------------------------------------------------- C3
\* The requests that passed the pre-check for the custom shortcode code
\* (line 164) and whose commit the store does not fail
Racers(code) ==
    {r \in Reqs : /\ req[r].kind = "create"
                  /\ req[r].shortcode # NoCode
                  /\ local[r].shortcode = code
                  /\ ~req[r].fault}

\* C3: when two or more create requests for the same custom shortcode have
\* all passed the pre-check (so none had inserted when another checked) and
\* all have been answered, exactly one got 201 and the others 409; the one
\* row of that shortcode is the winner's.  (No auto-allocating request took
\* the shortcode meanwhile.)
C3_OneWinner ==
    \A code \in {local[r].shortcode : r \in Reqs} \ {NoCode} :
      LET R == Racers(code)
          Winners == {r \in R : resp[r].status = 201}
      IN  (/\ Cardinality(R) >= 2
           /\ \A r \in R : pc[r] = "done"
           /\ \A i \in Stored(code) : shorturls[i].by \in R)
          => /\ Cardinality(Winners) = 1
             /\ \A r \in R \ Winners : resp[r].status = 409
             /\ Cardinality(Stored(code)) = 1
             /\ \A i \in Stored(code) : \A w \in Winners :
                  /\ shorturls[i].by = w
                  /\ shorturls[i].original_url = req[w].url

\* Two requests for the same custom shortcode both passed the pre-check and
\* both were answered: one 201, one 409 from the insert.
C3_Witness ==
    \E r, q \in Reqs :
      /\ r # q
      /\ r \in Racers(local[r].shortcode) /\ q \in Racers(local[r].shortcode)
      /\ pc[r] = "done" /\ pc[q] = "done"
      /\ resp[r].status = 201 /\ resp[q].status = 409
      /\ req[r].url # req[q].url

\* ------------------------------------------------------ redirect responses
\* Request r runs the expiry check of redirect_to_original and is answered
RedirectAnswers(r) ==
    /\ req[r].kind = "redirect"
    /\ pc[r] = "redirect_check"
    /\ pc'[r] = "done"

\* The link that request r found is live (now <= expiresAt) at its check
LiveAtCheck(r) == clock <= local[r].s.expiry.t

\* The create request that registered the link request r found
Registrar(r) == local[r].s.by

\* The click rows of a shortcode
ClicksOf(table, code) ==
    {i \in 1..Len(table) : table[i].shortcode = code}

\* ---------------------------------------------------------------------- C4
\* C4: every redirect of a registered shortcode made while the link is live
\* (now <= expiresAt) is answered 302 with the url of the create request that
\* registered the shortcode as its target.
C4_LiveRedirects ==
    [][\A r \in Reqs :
         (RedirectAnswers(r) /\ LiveAtCheck(r))
         => /\ resp'[r].status = 302
            /\ resp'[r].target = req[Registrar(r)].url]_vars

\* ---------------------------------------------------------------------- C5
\* C5: a redirect of a registered shortcode whose link is expired
\* (now > expiresAt) is answered 410 and leaves the click rows of that
\* shortcode as they were.
C5_ExpiredRedirect ==
    [][\A r \in Reqs :
         (RedirectAnswers(r) /\ ~LiveAtCheck(r))
         => /\ resp'[r].status = 410
            /\ clicks' = clicks]_vars

\* ---------------------------------------------------------------------- C6
\* C6: a redirect of a live link during which the store fails the commit of
\* the click is answered as if the click had been recorded: 302 to the
\* link's original_url, never an error status.
C6_ClickFaultAbsorbed ==
    [][\A r \in Reqs :
         (RedirectAnswers(r) /\ LiveAtCheck(r) /\ req[r].fault)
         => /\ resp'[r].status = 302
            /\ resp'[r].target = local[r].s.original_url
            /\ resp'[r].status \notin {400, 404, 410, 500}]_vars

\* ---------------------------------------------------------------------- C7
\* The redirect requests for a shortcode answered 302 so far
Redirected(code) ==
    {q \in Reqs : /\ Done(q, "redirect")
                  /\ req[q].shortcode = code
                  /\ resp[q].status = 302}

RequestedTicks(v) == IF v.type = "absent" THEN 2 * 30 ELSE v.halves

\* C8: every row of shorturls has expiry = created_at + the validity of the
\* create request that stored it (30 minutes when omitted), exactly, and
\* expiry > created_at.
C8_ExpiryExact ==
    \A i \in 1..Len(shorturls) :
      LET row == shorturls[i]
      IN  /\ row.expiry.t =
               row.created_at.t + RequestedTicks(req[row.by].validity)
          /\ row.expiry.t > row.created_at.t

\* ---------------------------------------------------------------------- C9
\* C9: a registered link is live exactly while now <= expiresAt: a redirect
\* checked at now <= expiresAt (now = expiresAt included) succeeds with 302,
\* one checked at now > expiresAt is answered 410.
C9_LiveExactlyUntilExpiry ==
    [][\A r \in Reqs :
         RedirectAnswers(r)
         => resp'[r].status = (IF clock > local[r].s.expiry.t
                               THEN 410 ELSE 302)]_vars

\* --------------------------------------------------------------------- C10
\* The link of a shortcode is expired: registered, and now > expiresAt
Expired(code) ==
    /\ Registered(code)
    /\ \A i \in Stored(code) : clock > shorturls[i].expiry.t

\* The redirect requests for a shortcode answered 410 so far
Refused(code) ==
    {q \in Reqs : /\ Done(q, "redirect")
                  /\ req[q].shortcode = code
                  /\ resp[q].status = 410}

NotPositiveInteger(v) ==
    /\ v.type # "absent"
    /\ ~(v.type = "int" /\ v.halves >= 2)

\* The rows of shorturls that request r inserted
RowsBy(r) == {i \in 1..Len(shorturls) : shorturls[i].by = r}

\* C11: a create request whose validity is not a positive integer (zero,
\* negative, fractional, not a number) is answered 400 and stores no row in
\* shorturls.
C11_ValidityRefused ==
    \A r \in Reqs :
      (req[r].kind = "create" /\ NotPositiveInteger(req[r].validity))
      => /\ RowsBy(r) = {}
         /\ pc[r] = "done" => resp[r].status = 400

\* --------------------------------------------------------------------- C12
\* Alphanumeric, 4 to 64 characters
WellFormed(code) ==
    /\ Len(code) \in 4..64
    /\ \A i \in 1..Len(code) : code[i] \in Lower \cup Upper \cup Digits

\* The text of a shortcode without the blanks around it
RECURSIVE Trimmed(_)
Trimmed(code) ==
    IF code = <<>> THEN code
    ELSE IF code[1] = " " THEN Trimmed(Tail(code))
    ELSE IF code[Len(code)] = " " THEN Trimmed(SubSeq(code, 1, Len(code) - 1))
    ELSE code

\* Request r is a create that is refused for its shortcode: answered 400 once
\* done, on neither way to an insert, no row stored
RefusedForCode(r) ==
    /\ pc[r] \notin {"generate", "insert"}
    /\ pc[r] = "done" => resp[r].status = 400
    /\ RowsBy(r) = {}

\* C12 as stated: a create request that supplies a custom shortcode which does
\* not match the format (alphanumeric, length 4 to 64) is answered 400, stores
\* no row and never goes on to auto-allocation.
C12_MalformedRefused ==
    \A r \in Reqs :
      (/\ req[r].kind = "create"
       /\ req[r].shortcode # NoCode
       /\ ~WellFormed(req[r].shortcode))
      => RefusedForCode(r)

\* C12, amended: a create request that supplies a custom shortcode which,
\* once the blanks around it are stripped, does not match the format
\* (alphanumeric, length 4 to 64) is answered 400, stores no row and never
\* goes on to auto-allocation; a shortcode that matches once stripped is
\* taken in its stripped form.
C12_StrippedMalformedRefused ==
    \A r \in Reqs :
      (req[r].kind = "create" /\ req[r].shortcode # NoCode)
      => /\ ~WellFormed(Trimmed(req[r].shortcode)) => RefusedForCode(r)
         /\ pc[r] \in {"insert", "done"} =>
              local[r].shortcode \in {NoCode, Trimmed(req[r].shortcode)}

\* A valid body with a shortcode that is not alphanumeric, one with a blank
\* shortcode and one with a too short shortcode were answered (400)
C12_Witness ==
    \E r, q \in Reqs :
      /\ r # q
      /\ Done(r, "create") /\ Done(q, "create")
      /\ ValidCreate(req[r]) /\ ValidCreate(req[q])
      /\ req[r].shortcode = <<"a", "b", "-", "d", "1">>
      /\ req[q].shortcode \in {<<" ", " ">>, <<"a", "b">>}
      /\ resp[r].status = 400 /\ resp[q].status = 400

\* --------------------------------------------------------------------- C13
\* A create request was answered 201 for this shortcode
Created(code) ==
    \E c \in Reqs :
      /\ Done(c, "create")
      /\ resp[c].status = 201
      /\ ReturnedCode(c) = code

\* C13: once a create request was answered 201 for a shortcode, every
\* redirect and stats request for it that is answered afterwards observes
\* the link: the redirect is answered 302 or 410 and the stats 200, never 404.
C13_CreatedIsObserved ==
    [][\A r \in Reqs :
         (Created(req[r].shortcode) /\ Finishes(r))
         => /\ req[r].kind = "redirect" => resp'[r].status \in {302, 410}
            /\ req[r].kind = "stats" => resp'[r].status = 200]_vars

\* --------------------------------------------------------------------- C14
\* How many rows of clicks hold this shortcode with a timestamp at tick t
ClicksAt(code, t) ==
    Cardinality({i \in 1..Len(clicks) :
                   clicks[i].shortcode = code /\ clicks[i].timestamp.t = t})

NthLength(k) ==
    IF k < 6 THEN 6 ELSE IF k < 12 THEN 7 ELSE IF k < 18 THEN 8 ELSE 10

\* Some shortcode of this length is registered
OccupiedOfLength(len) ==
    \E i \in 1..Len(shorturls) : Len(shorturls[i].shortcode) = len

\* One draw of request r and its existence check
C15_Step(r) ==
    (pc[r] = "generate" /\ <<pc'[r], local'[r]>> # <<pc[r], local[r]>>)
    => LET k == local[r].attempt
       IN  /\ k <= 18
           /\ pc'[r] = "insert" =>
                /\ Len(local'[r].shortcode) = NthLength(k)
                /\ ~Registered(local'[r].shortcode)
                /\ local'[r].attempt = k
           /\ pc'[r] = "generate" =>
                /\ k < 18
                /\ local'[r].attempt = k + 1
                /\ local'[r].shortcode = NoCode
                /\ OccupiedOfLength(NthLength(k))
           /\ pc'[r] = "done" =>
                /\ k = 18
                /\ resp'[r].status = 500
                /\ OccupiedOfLength(10)

\* C15: an auto-allocating create draws six candidates of length 6, six of
\* length 7, six of length 8 and then one of length 10, checks after each draw
\* whether it is registered, goes on with the first one found unregistered,
\* makes at most 19 such checks, and is answered 500 by the allocation exactly
\* when all 19 candidates were found registered.
C15_DrawOrder ==
    [][\A r \in Reqs :
         /\ C15_Step(r)
         /\ (Finishes(r) /\ req[r].shortcode = NoCode
             /\ resp'[r].status = 500)
            => (pc[r] = "generate" /\ local[r].attempt = 18)]_vars

\* One request found 18 candidates registered and took the nineteenth, of
\* length 10; another found all 19 registered and was answered 500
C15_Witness ==
    \E q, r \in Reqs :
      /\ Done(q, "create") /\ resp[q].status = 201
      /\ local[q].attempt = 18 /\ Len(ReturnedCode(q)) = 10
      /\ Done(r, "create") /\ resp[r].status = 500
      /\ local[r].attempt = 18 /\ local[r].shortcode = NoCode

\* --------------------------------------------------------------------- C16
\* The insert of an auto-allocated candidate that another request registered
\* since it was drawn (the store does not fail the commit otherwise)
C16_Step(r) ==
    (/\ req[r].kind = "create" /\ req[r].shortcode = NoCode /\ ~req[r].fault
     /\ pc[r] = "insert" /\ pc'[r] # "insert"
     /\ Registered(local[r].shortcode))
    => /\ pc'[r] = "done"
       /\ resp'[r].status = 409
       /\ local'[r] = local[r]
       /\ shorturls' = shorturls

\* C16: when a concurrent create registers the candidate of an auto-allocating
\* create between its existence check and its insert, the allocation is not
\* retried: the request is answered 409 after that one insert attempt, and the
\* row of the concurrent writer stays as it is.
C16_LostRaceNotRetried == [][\A r \in Reqs : C16_Step(r)]_vars

\* An auto-allocating create was answered 409 for the candidate it drew, which
\* holds the row of another request
C16_Witness ==
    \E r, q \in Reqs :
      /\ r # q
      /\ Done(r, "create") /\ req[r].shortcode = NoCode
      /\ resp[r].status = 409
      /\ local[r].shortcode # NoCode
      /\ local[r].attempt = 0
      /\ \E i \in Stored(local[r].shortcode) :
           /\ shorturls[i].by = q
           /\ shorturls[i].original_url = req[q].url
      /\ RowsBy(r) = {}

\* --------------------------------------------------------------------- C17
\* C17: rows of shorturls are written once: no step of any create, redirect
\* or stats request, in any interleaving, removes a row or changes the
\* shortcode, original_url, created_at or expiry of a row.
C17_WriteOnce ==
    [][/\ Len(shorturls') >= Len(shorturls)
       /\ \A i \in 1..Len(shorturls) : shorturls'[i] = shorturls[i]]_vars

\* The row stored at tick 0 is as it was stored after its expiry, when a
\* redirect and a stats request for it have been answered
C17_Witness ==
    \E c, q, r \in Reqs :
      /\ Done(c, "create") /\ resp[c].status = 201 /\ resp[c].at = 0
      /\ Done(q, "redirect") /\ Done(r, "stats")
      /\ Len(shorturls) = 1
      /\ shorturls[1].by = c
      /\ shorturls[1].shortcode = req[c].shortcode
      /\ shorturls[1].original_url = req[c].url
      /\ shorturls[1].created_at.t = 0
      /\ shorturls[1].expiry.t = RequestedTicks(req[c].validity)
      /\ resp[q].at > shorturls[1].expiry.t
      /\ resp[r].at > shorturls[1].expiry.t
      /\ resp[q].status # 404 /\ resp[r].status = 200

\* --------------------------------------------------------------------- C18
\* Every row of clicks holds the shortcode of a row of shorturls and a
\* timestamp that is not after that row's expiry.  (No reachable state has a
\* row of clicks, so this says nothing of the code as it is: see C4.)
ClicksWithinExpiry ==
    \A k \in 1..Len(clicks) :
      /\ Registered(clicks[k].shortcode)
      /\ \A i \in Stored(clicks[k].shortcode) :
           clicks[k].timestamp.t <= shorturls[i].expiry.t

\* No redirect has stored a click
NoClickStored == clicks = <<>>

\* --------------------------------------------------------------------- C19
\* A step of request r, a create, that does not end in the answer 201
RefusingStep(r) ==
    /\ req[r].kind = "create"
    /\ <<pc'[r], local'[r]>> # <<pc[r], local[r]>>
    /\ ~(pc'[r] = "done" /\ resp'[r].status = 201)

\* C19: a create request that is not answered 201 (400, 409 or 500) leaves
\* shorturls and clicks exactly as they were before it; a refused insert is
\* rolled back.
C19_FailedCreateNoEffect ==
    [][\A r \in Reqs :
         RefusingStep(r) => shorturls' = shorturls /\ clicks' = clicks]_vars

\* One create stored its row; another lost the insert of the same shortcode
\* (409) and a third had its commit failed by the store (500): the table holds
\* the one row
C19_Witness ==
    \E a, b, c \in Reqs :
      /\ Done(a, "create") /\ Done(b, "create") /\ Done(c, "create")
      /\ resp[a].status = 201
      /\ resp[b].status = 409 /\ local[b].shortcode = ReturnedCode(a)
      /\ resp[c].status = 500 /\ req[c].fault
      /\ Len(shorturls) = 1
      /\ shorturls[1].by = a
      /\ clicks = <<>>

\* --------------------------------------------------------------------- C20
\* The ISO text of a stored time, in UTC
IsoZ(dt) == [t |-> dt.t, suffix |-> "Z"]

\* A step of request r, a stats request
C20_Step(r) ==
    (req[r].kind = "stats" /\ <<pc'[r], local'[r]>> # <<pc[r], local[r]>>)
    => /\ shorturls' = shorturls
       /\ clicks' = clicks
       /\ pc[r] = "stats" =>
            IF Registered(req[r].shortcode)
            THEN pc'[r] = "stats_clicks"
            ELSE pc'[r] = "done" /\ resp'[r].status = 404
       /\ (pc'[r] = "done" /\ Registered(req[r].shortcode)) =>
            /\ resp'[r].status = 200
            /\ \A i \in Stored(req[r].shortcode) :
                 /\ resp'[r].originalURL = shorturls[i].original_url
                 /\ resp'[r].createdAt = IsoZ(shorturls[i].created_at)
                 /\ resp'[r].expiry = IsoZ(shorturls[i].expiry)

\* C20: a stats request never changes shorturls or clicks; for a registered
\* shortcode it is answered 200 with the row's original_url, created_at and
\* expiry, whether the link is live or expired; only an unregistered
\* shortcode is answered 404.
C20_StatsReadOnly == [][\A r \in Reqs : C20_Step(r)]_vars

\* Stats for one link were answered 200 with its url before its expiry and
\* again after it
C20_Witness ==
    \E q, r \in Reqs :
      /\ Done(q, "stats") /\ Done(r, "stats")
      /\ resp[q].status = 200 /\ resp[r].status = 200
      /\ \E i \in Stored(req[r].shortcode) :
           /\ req[q].shortcode = req[r].shortcode
           /\ resp[q].at <= shorturls[i].expiry.t
           /\ resp[r].at > shorturls[i].expiry.t
           /\ resp[r].originalURL = shorturls[i].original_url
           /\ resp[r].expiry = resp[q].expiry

====
